---- MODULE Spec2Model ----
(***************************************************************************)
(* Model of the incremental price synchronisation of pse-stocks-etl:       *)
(* the per-symbol fetch window, the skip path, the source client's and the *)
(* sync module's deduplication, the upsert into the sink and the worker    *)
(* pool of parallel_execute, for the four sink variants of src/etl; and of *)
(* the registry sync of the company list, the fetch window and the batched *)
(* insert on their own.                                                    *)
(* Dates are days since 1970-01-01.                                        *)
(***************************************************************************)
EXTENDS Integers, Sequences, FiniteSets, TLC

VARIABLES
    backend,            \* which src/etl module runs: postgres, bigquery, deltalake, spark
    today,              \* (datetime.utcnow() + 8h).date()
    unknown,            \* symbols the source does not know (UnknownSymbolException)
    table,              \* rows of the sink's daily_stock_price table
    latest_dates,       \* DailyStockPriceDataset.latest_dates (the FreshnessMap)
    pc,                 \* position of the main thread: idle, join, merge
    run,                \* number of sync/backfill jobs started
    lookback_days,      \* argument of the running sync_db / sync_table
    num_threads,        \* argument of the running parallel_execute
    queue,              \* parallel_execute: queue.Queue content
    unfinished,         \* parallel_execute: queue.unfinished_tasks
    caught_exceptions,  \* parallel_execute: caught_exceptions
    wpc,                \* per worker thread: off, idle (blocked in get), call, store
    warg,               \* per worker thread: arg taken from the queue
    wrows,              \* per worker thread: price_df returned by get_stock_data
    staged,             \* staging area of the run: symbol -> rows of <symbol>.csv
    result,             \* how the last sync job ended: none, returned, raised
    raised,             \* the exception the last sync job raised
    pe,                 \* parallel_execute of this run: none, running, returned, raised
    calls,              \* history: symbol -> invocations of func in this run
    callDay,            \* history: symbol -> today at its invocation
    fetches,            \* history: symbol -> get_stock_data requests of this run
    writes,             \* history: symbol -> sink/staging writes of this run
    thrown,             \* history: exceptions that left func in this run
    logs,               \* history: log records of this run
    snapshot,           \* history: table when the run started
    prev,               \* history: summary of the previous run
    din, dout,          \* input and output of the deduplication under test
    lastMerged,         \* history: key -> row last merged for it
    mergeExc,           \* history: what the load/merge step of this run raised
    listing,            \* the source's current entity list, as the site shows it
    company,            \* rows of the sink's company table
    extract_df_list,    \* get_listed_companies: rows of the pages fetched so far
    source_data,        \* PSECompaniesDataset.sync_db: the fetched entity rows
    company_symbols,    \* PSECompaniesDataset.symbols
    insert_batch_size,  \* argument of the batched insert
    statements,         \* history: the rows of every INSERT statement issued
    company0,           \* history: the company table when the registry sync started
    plan                \* per lookback_days and symbol: skip or the window requested

vars == <<backend, today, unknown, table, latest_dates, pc, run, lookback_days,
          num_threads, queue, unfinished, caught_exceptions, wpc, warg, wrows,
          staged, result, raised, pe, calls, callDay, fetches, writes, thrown,
          logs, snapshot, prev, din, dout, lastMerged, mergeExc, listing, company,
          extract_df_list, source_data, company_symbols, insert_batch_size, statements,
          company0, plan>>

(* ------------------------------ bounds ------------------------------ *)
FirstDay == 3
MaxDay == 4
MaxRuns == 2
MaxThreads == 2

(* ------------------------- program constants ------------------------ *)
EPOCH_FLOOR == 0
FreshnessDays == 1
BackfillLookback == 36500
BatchSize == 3000

Backends == {"postgres", "bigquery", "deltalake", "spark"}
symbols == <<"AAA", "BAD", "CCC">>
SymbolSet == {symbols[i] : i \in 1..Len(symbols)}
SymRank(s) == CHOOSE i \in 1..Len(symbols) : symbols[i] = s

NoExc == [kind |-> "none", symbol |-> "none"]
UnknownSymbolException(s) == [kind |-> "UnknownSymbolException", symbol |-> s]
GenericException(s) == [kind |-> "Exception", symbol |-> s]

(* ------------------------------ source ------------------------------ *)
Bar(d, o, c) == [date |-> d, open |-> o, high |-> c + 1, low |-> o - 1, close |-> c]

\* chartData of the source per symbol, in the order the server returns it.
ChartData(s) ==
    CASE s = "AAA" -> <<Bar(1, 9, 10), Bar(1, 11, 12), Bar(2, 10, 11), Bar(3, 12, 13)>>
      [] s = "BAD" -> <<Bar(2, 30, 31), Bar(3, 31, 30)>>
      [] OTHER     -> <<Bar(1, 20, 21)>>

RECURSIVE InWindow(_, _, _)
InWindow(chart, start, end) ==
    IF chart = <<>> THEN <<>>
    ELSE LET h == Head(chart)
             rest == InWindow(Tail(chart), start, end)
         IN IF start <= h.date /\ h.date <= end THEN <<h>> \o rest ELSE rest

PriceRow(s, b, stamp) ==
    [symbol |-> s, date |-> b.date, open |-> b.open, high |-> b.high,
     low |-> b.low, close |-> b.close, extracted_at |-> stamp]

\* rank(method='ordinal').over('date') == 1: the first row of every date.
RECURSIVE FirstPerDate(_, _)
FirstPerDate(rows, seen) ==
    IF rows = <<>> THEN <<>>
    ELSE LET h == Head(rows)
         IN IF h.date \in seen THEN FirstPerDate(Tail(rows), seen)
            ELSE <<h>> \o FirstPerDate(Tail(rows), seen \cup {h.date})

\* Mutant: the request window is not applied to the chart data.
get_stock_data_unbounded(s, start, end, stamp) ==
    LET chart == ChartData(s)
        rows == [i \in 1..Len(chart) |-> PriceRow(s, chart[i], stamp)]
    IN FirstPerDate(rows, {})

get_stock_data(s, start, end, stamp) ==
    LET chart == InWindow(ChartData(s), start, end)
        rows == [i \in 1..Len(chart) |-> PriceRow(s, chart[i], stamp)]
    IN FirstPerDate(rows, {})

(* --------------------------- deduplication -------------------------- *)
\* Mutant: the natural key is the date alone.
KeyDateOnly(r) == <<"any", r.date>>

Key(r) == <<r.symbol, r.date>>
KeyLess(a, b) == a.date < b.date \/ (a.date = b.date /\ SymRank(a.symbol) < SymRank(b.symbol))

\* Mutant: on ties the last index of the maximum close.
IdxMaxLast(rows) ==
    {i \in 1..Len(rows) :
        \A j \in 1..Len(rows) :
            Key(rows[j]) = Key(rows[i]) =>
                \/ rows[j].close < rows[i].close
                \/ (rows[j].close = rows[i].close /\ j <= i)}

\* groupby(['date','symbol'])['close'].idxmax(): per group the first index of the
\* maximum close.
IdxMax(rows) ==
    {i \in 1..Len(rows) :
        \A j \in 1..Len(rows) :
            Key(rows[j]) = Key(rows[i]) =>
                \/ rows[j].close < rows[i].close
                \/ (rows[j].close = rows[i].close /\ i <= j)}

\* Mutant: the groups come latest date first.
RECURSIVE TakeSortedDescending(_, _)
TakeSortedDescending(rows, idx) ==
    IF idx = {} THEN <<>>
    ELSE LET m == CHOOSE i \in idx : \A j \in idx \ {i} : KeyLess(rows[j], rows[i])
         IN <<rows[m]>> \o TakeSortedDescending(rows, idx \ {m})

\* groupby sorts the groups by (date, symbol); .loc takes the rows in that order.
RECURSIVE TakeSorted(_, _)
TakeSorted(rows, idx) ==
    IF idx = {} THEN <<>>
    ELSE LET m == CHOOSE i \in idx : \A j \in idx \ {i} : KeyLess(rows[i], rows[j])
         IN <<rows[m]>> \o TakeSorted(rows, idx \ {m})

Deduplicate(rows) == TakeSorted(rows, IdxMax(rows))

(* ------------------------------- sink ------------------------------- *)
SetMax(S) == CHOOSE m \in S : \A x \in S : x <= m

\* SELECT symbol, max(date) AS latest_date ... GROUP BY symbol, as a dict.
LatestDates(t) ==
    [s \in {r.symbol : r \in t} |-> SetMax({r.date : r \in {x \in t : x.symbol = s}})]

SeqKeys(rows) == {Key(rows[i]) : i \in 1..Len(rows)}
SeqRows(rows) == {rows[i] : i \in 1..Len(rows)}
DistinctKeys(rows) == \A i, j \in 1..Len(rows) : Key(rows[i]) = Key(rows[j]) => i = j

\* Mutant: a plain INSERT, the stored row of a conflicting key is kept as well.
UpsertInsertOnly(t, rows) == t \cup SeqRows(rows)

\* Mutant: ON CONFLICT DO NOTHING, the stored row of a conflicting key wins.
UpsertDoNothing(t, rows) ==
    t \cup {r \in SeqRows(rows) : Key(r) \notin {Key(x) : x \in t}}

\* Mutant: the stored rows of the symbols written are deleted first.
UpsertReplaceSymbol(t, rows) ==
    {r \in t : r.symbol \notin {x.symbol : x \in SeqRows(rows)}} \cup SeqRows(rows)

\* One INSERT ... ON CONFLICT (symbol,date) DO UPDATE SET <every column> statement.
\* Postgres rejects a statement that would touch one row twice.
Upsert(t, rows) == {r \in t : Key(r) \notin SeqKeys(rows)} \cup SeqRows(rows)

\* Mutant: a statement is issued only when the buffer is full.
RECURSIVE BatchesFullOnly(_, _, _, _)
BatchesFullOnly(rows, idx, buffer, batch_size) ==
    IF idx > Len(rows) THEN <<>>
    ELSE LET rows_to_insert == Append(buffer, rows[idx])
         IN IF Len(rows_to_insert) = batch_size
            THEN <<rows_to_insert>> \o BatchesFullOnly(rows, idx + 1, <<>>, batch_size)
            ELSE BatchesFullOnly(rows, idx + 1, rows_to_insert, batch_size)

\* The batching loop of _insert_price_data_to_db: a statement is issued when the
\* buffer holds batch_size rows or the last row was appended.
RECURSIVE Batches(_, _, _, _)
Batches(rows, idx, buffer, batch_size) ==
    IF idx > Len(rows) THEN <<>>
    ELSE LET rows_to_insert == Append(buffer, rows[idx])
         IN IF Len(rows_to_insert) = batch_size \/ idx = Len(rows)
            THEN <<rows_to_insert>> \o Batches(rows, idx + 1, <<>>, batch_size)
            ELSE Batches(rows, idx + 1, rows_to_insert, batch_size)

\* The sink after the first k statements of the loop were committed.
RECURSIVE Committed(_, _, _)
Committed(t, batches, k) ==
    IF k = 0 THEN t
    ELSE Upsert(Committed(t, batches, k - 1), batches[k])

\* Delta Lake merge on s.symbol = t.symbol AND s.date = t.date:
\* when matched update all, when not matched insert all.
DeltaMerge(t, rows) == {r \in t : Key(r) \notin SeqKeys(rows)} \cup SeqRows(rows)

\* BigQuery: load the staged CSVs into the ingest table, then merge it into the
\* target by natural key (update matched, insert unmatched).
BigQueryMerge(t, rows) == {r \in t : Key(r) \notin SeqKeys(rows)} \cup SeqRows(rows)

(* --------------------------- fetch window --------------------------- *)
CurrentEndDate(ld, s) == IF s \in DOMAIN ld THEN ld[s] ELSE EPOCH_FLOOR
\* Mutant: the window starts on the latest stored day instead of the day after.
TargetStartDateNoNextDay(current_end_date, lookback) == current_end_date - lookback

\* Mutant: the lookback moves the start forward.
TargetStartDateForward(current_end_date, lookback) == current_end_date + (1 + lookback)

TargetStartDate(current_end_date, lookback) == current_end_date + (1 - lookback)
TargetEndDate(day, freshness) == day - freshness

\* "Skip if conditions are satisfied"; download_price_updates of the Spark
\* variant has no such branch.
SkipCondition(b, lookback, current_end_date, target_end_date) ==
    b # "spark" /\ lookback = 0 /\ current_end_date = target_end_date

\* "except UnknownSymbolException" around the fetch; absent in the Spark variant.
CatchesUnknown(b) == b # "spark"

Staging(b) == b # "postgres"

(* ------------------------- the sync job ----------------------------- *)
Workers == 1..MaxThreads
ThreadChoices == 1..MaxThreads
LookbackChoices == {0, BackfillLookback}

Log(level, msg, s) == [level |-> level, msg |-> msg, symbol |-> s, n |-> 0]
LogCount(level, msg, n) == [level |-> level, msg |-> msg, symbol |-> "", n |-> n]

RECURSIVE ConcatStaged(_, _)
ConcatStaged(st, i) ==
    IF i > Len(symbols) THEN <<>> ELSE st[symbols[i]] \o ConcatStaged(st, i + 1)

Merge(b, t, rows) ==
    IF b = "bigquery" THEN BigQueryMerge(t, rows) ELSE DeltaMerge(t, rows)

PureVars == <<din, dout, lastMerged>>

RegistryVars == <<listing, company, extract_df_list, source_data, company_symbols,
                  insert_batch_size, statements, company0, plan>>

\* Mutant: a thread is started for every slot, whatever num_threads is.
ThreadStartedAlways(w, nthreads) == w >= 1

\* for i in range(num_threads): the threads with i + 1 = 1 .. num_threads start.
ThreadStarted(w, nthreads) == w <= nthreads

\* sync() / backfill(): a new DailyStockPriceDataset (its constructor reads the
\* latest dates) and sync_db / sync_table up to the start of the worker threads.
StartSync(lookback, nthreads) ==
    /\ pc = "idle"
    /\ run < MaxRuns
    /\ run' = run + 1
    /\ latest_dates' = LatestDates(table)
    /\ lookback_days' = lookback
    /\ num_threads' = nthreads
    /\ queue' = symbols
    /\ unfinished' = Len(symbols)
    /\ caught_exceptions' = <<>>
    /\ wpc' = [w \in Workers |-> IF ThreadStarted(w, nthreads) THEN "idle" ELSE "off"]
    /\ warg' = [w \in Workers |-> "none"]
    /\ wrows' = [w \in Workers |-> <<>>]
    /\ staged' = [s \in SymbolSet |-> <<>>]
    /\ pc' = "join"
    /\ result' = "none"
    /\ raised' = NoExc
    /\ pe' = "running"
    /\ calls' = [s \in SymbolSet |-> 0]
    /\ callDay' = [s \in SymbolSet |-> 0]
    /\ fetches' = [s \in SymbolSet |-> <<>>]
    /\ writes' = [s \in SymbolSet |-> 0]
    /\ thrown' = {}
    /\ logs' = {}
    /\ mergeExc' = NoExc
    /\ snapshot' = [table |-> table, day |-> today]
    /\ prev' = [result |-> result, day |-> snapshot.day, lookback |-> lookback_days,
                 mergeExc |-> mergeExc]
    /\ UNCHANGED <<backend, today, unknown, table>>
    /\ UNCHANGED PureVars
    /\ UNCHANGED RegistryVars

\* Mutant: the element is read but stays in the queue.
QueuePeek(q) == q

\* run_func: arg = queue.get(block=True)
QueueGet(q) == Tail(q)

\* The threads blocked in get are interchangeable: the one with the smallest
\* index stands for whichever of them the queue wakes.
WorkerGet(w) ==
    /\ pc = "join"
    /\ wpc[w] = "idle"
    /\ \A v \in Workers : v < w => wpc[v] # "idle"
    /\ queue # <<>>
    /\ warg' = [warg EXCEPT ![w] = Head(queue)]
    /\ queue' = QueueGet(queue)
    /\ wpc' = [wpc EXCEPT ![w] = "call"]
    /\ UNCHANGED <<backend, today, unknown, table, latest_dates, pc, run,
                   lookback_days, num_threads, unfinished, caught_exceptions, wrows,
                   staged, result, raised, pe, calls, callDay, fetches, writes,
                   thrown, logs, snapshot, prev, mergeExc>>
    /\ UNCHANGED PureVars
    /\ UNCHANGED RegistryVars

\* run_func: func returned; queue.task_done()
Returned(w) ==
    /\ wpc' = [wpc EXCEPT ![w] = "idle"]
    /\ unfinished' = unfinished - 1
    /\ UNCHANGED <<caught_exceptions, thrown>>

\* Mutant: the exception is swallowed.
ExceptionSwallowed(ce, e) == ce

\* run_func: except Exception as e: caught_exceptions.append(e)
ExceptionCaught(ce, e) == Append(ce, e)

\* run_func: func raised e; the except clause, then queue.task_done()
Caught(w, e) ==
    /\ wpc' = [wpc EXCEPT ![w] = "idle"]
    /\ unfinished' = unfinished - 1
    /\ caught_exceptions' = ExceptionCaught(caught_exceptions, e)
    /\ thrown' = thrown \cup {e}

\* The per-symbol function up to the return of get_stock_data.
WorkerCall(w) ==
    /\ pc = "join"
    /\ wpc[w] = "call"
    /\ LET s == warg[w]
           current_end_date == CurrentEndDate(latest_dates, s)
           target_start_date == TargetStartDate(current_end_date, lookback_days)
           target_end_date == TargetEndDate(today, FreshnessDays)
       IN /\ calls' = [calls EXCEPT ![s] = @ + 1]
          /\ callDay' = [callDay EXCEPT ![s] = today]
          /\ IF SkipCondition(backend, lookback_days, current_end_date, target_end_date)
             THEN /\ logs' = logs \cup {Log("info", "up-to-date", s)}
                  /\ Returned(w)
                  /\ UNCHANGED <<fetches, wrows>>
             ELSE /\ fetches' = [fetches EXCEPT ![s] =
                        Append(@, [start |-> target_start_date, end |-> target_end_date])]
                  /\ IF s \in unknown
                     THEN IF CatchesUnknown(backend)
                          THEN /\ logs' = logs \cup {Log("warning", "unknown-symbol", s)}
                               /\ Returned(w)
                               /\ UNCHANGED wrows
                          ELSE /\ Caught(w, UnknownSymbolException(s))
                               /\ UNCHANGED <<logs, wrows>>
                     ELSE \/ /\ wrows' = [wrows EXCEPT ![w] =
                                   get_stock_data(s, target_start_date, target_end_date, run)]
                             /\ wpc' = [wpc EXCEPT ![w] = "store"]
                             /\ UNCHANGED <<unfinished, caught_exceptions, thrown, logs>>
                          \/ /\ Caught(w, GenericException(s))
                             /\ UNCHANGED <<logs, wrows>>
    /\ UNCHANGED <<backend, today, unknown, table, latest_dates, pc, run,
                   lookback_days, num_threads, queue, warg, staged, result, raised,
                   pe, writes, snapshot, prev, mergeExc>>
    /\ UNCHANGED PureVars
    /\ UNCHANGED RegistryVars

\* Mutant: the worker refreshes the map from the sink after its insert.
MapAfterInsertRefreshed(ld, t) == LatestDates(t)

\* _insert_price_data_to_db reads and writes the table only: self.latest_dates
\* is what it was before the insert.
MapAfterInsert(ld, t) == ld

\* The per-symbol function from the deduplication on: insert into the table
\* (Postgres) or write the symbol's CSV to the staging area (the other sinks).
WorkerStore(w) ==
    /\ pc = "join"
    /\ wpc[w] = "store"
    /\ LET s == warg[w]
           price_df == Deduplicate(wrows[w])
           batches == Batches(price_df, 1, <<>>, BatchSize)
       IN IF Len(price_df) = 0
          THEN /\ logs' = logs \cup {Log("info", "zero-records", s)}
               /\ Returned(w)
               /\ UNCHANGED <<table, staged, writes, latest_dates>>
          ELSE IF Staging(backend)
          THEN \/ /\ staged' = [staged EXCEPT ![s] = price_df]
                  /\ writes' = [writes EXCEPT ![s] = @ + 1]
                  /\ logs' = logs \cup {Log("info", "saved", s)}
                  /\ Returned(w)
                  /\ UNCHANGED <<table, latest_dates>>
               \/ /\ Caught(w, GenericException(s))
                  /\ UNCHANGED <<table, staged, writes, logs, latest_dates>>
          ELSE \E k \in 0..Len(batches) :
                  /\ \A j \in 1..k : DistinctKeys(batches[j])
                  /\ k < Len(batches) \/ DistinctKeys(batches[Len(batches)])
                  /\ table' = Committed(table, batches, k)
                  /\ latest_dates' = MapAfterInsert(latest_dates, table')
                  /\ writes' = [writes EXCEPT ![s] = @ + k]
                  /\ UNCHANGED staged
                  /\ IF k = Len(batches)
                     THEN /\ logs' = logs \cup {Log("info", "synced", s)}
                          /\ Returned(w)
                     ELSE /\ Caught(w, GenericException(s))
                          /\ UNCHANGED logs
    /\ wrows' = [wrows EXCEPT ![w] = <<>>]
    /\ UNCHANGED <<backend, today, unknown, pc, run, lookback_days,
                   num_threads, queue, warg, result, raised, pe, calls, callDay,
                   fetches, snapshot, prev, mergeExc>>
    /\ UNCHANGED PureVars
    /\ UNCHANGED RegistryVars

\* parallel_execute after queue.join(): raise caught_exceptions[0] or return True;
\* then, for Postgres, the rest of sync_db (_refresh_metadata).
Join ==
    /\ pc = "join"
    /\ unfinished = 0
    /\ IF Len(caught_exceptions) > 0
       THEN /\ logs' = logs \cup {LogCount("warning", "errors-occurred", Len(caught_exceptions))}
            /\ pe' = "raised"
            /\ pc' = "idle"
            /\ result' = "raised"
            /\ raised' = caught_exceptions[1]
            /\ UNCHANGED latest_dates
       ELSE IF Staging(backend)
       THEN /\ pe' = "returned"
            /\ pc' = "merge"
            /\ UNCHANGED <<result, raised, latest_dates, logs>>
       ELSE /\ pe' = "returned"
            /\ pc' = "idle"
            /\ result' = "returned"
            /\ latest_dates' = LatestDates(table)
            /\ UNCHANGED <<raised, logs>>
    /\ UNCHANGED <<backend, today, unknown, table, run, lookback_days, num_threads,
                   queue, unfinished, caught_exceptions, wpc, warg, wrows, staged,
                   calls, callDay, fetches, writes, thrown, snapshot, prev, mergeExc>>
    /\ UNCHANGED PureVars
    /\ UNCHANGED RegistryVars

\* What the load/merge step of a staging sink may raise: any exception, among
\* them the class the variant's except clause names.
ComputeError == [kind |-> "ComputeError", symbol |-> "merge"]
AnalysisException == [kind |-> "AnalysisException", symbol |-> "merge"]
MergeFailures(b) ==
    {GenericException("merge")}
        \cup (IF b = "deltalake" THEN {ComputeError} ELSE {})
        \cup (IF b = "spark" THEN {AnalysisException} ELSE {})

\* "except pl.ComputeError" (Delta Lake) and "except AnalysisException" (Spark)
\* end in a log line; "except Exception" (BigQuery) ends in "raise e".
Swallows(b, e) ==
    \/ b = "deltalake" /\ e.kind = "ComputeError"
    \/ b = "spark" /\ e.kind = "AnalysisException"

\* The cleanup of the staging area after a failed load/merge: in the except
\* clause (BigQuery) or after the try statement (Delta Lake, Spark), which an
\* exception that is not caught never reaches.
CleanupRuns(b, e) == b = "bigquery" \/ Swallows(b, e)

\* The staging sinks after parallel_execute returned: load the staged files and
\* merge them into the target table, refresh the metadata, clean up.
MergeStaged ==
    /\ pc = "merge"
    /\ LET updates == ConcatStaged(staged, 1)
       IN IF updates = <<>>
          THEN /\ pc' = "idle"
               /\ result' = "returned"
               /\ latest_dates' = IF backend = "bigquery" THEN LatestDates(table)
                                  ELSE latest_dates
               /\ UNCHANGED <<table, staged, raised, mergeExc>>
          ELSE \/ /\ table' = Merge(backend, table, updates)
                  /\ latest_dates' = LatestDates(table')
                  /\ staged' = [s \in SymbolSet |-> <<>>]
                  /\ pc' = "idle"
                  /\ result' = "returned"
                  /\ UNCHANGED <<raised, mergeExc>>
               \/ \E e \in MergeFailures(backend) :
                     /\ mergeExc' = e
                     /\ pc' = "idle"
                     /\ result' = IF Swallows(backend, e) THEN "returned" ELSE "raised"
                     /\ raised' = IF Swallows(backend, e) THEN raised ELSE e
                     /\ staged' = IF CleanupRuns(backend, e)
                                  THEN [s \in SymbolSet |-> <<>>] ELSE staged
                     /\ UNCHANGED <<table, latest_dates>>
    /\ UNCHANGED <<backend, today, unknown, run, lookback_days, num_threads, queue,
                   unfinished, caught_exceptions, wpc, warg, wrows, pe, calls,
                   callDay, fetches, writes, thrown, logs, snapshot, prev>>
    /\ UNCHANGED PureVars
    /\ UNCHANGED RegistryVars

\* The source's calendar day advances.
Tick ==
    /\ today < MaxDay
    /\ today' = today + 1
    /\ UNCHANGED <<backend, unknown, table, latest_dates, pc, run, lookback_days,
                   num_threads, queue, unfinished, caught_exceptions, wpc, warg, wrows,
                   staged, result, raised, pe, calls, callDay, fetches, writes,
                   thrown, logs, snapshot, prev, mergeExc>>
    /\ UNCHANGED PureVars
    /\ UNCHANGED RegistryVars

\* What the price model leaves alone.
RegistryIdle ==
    /\ listing = <<>>
    /\ company = {}
    /\ extract_df_list = <<>>
    /\ source_data = <<>>
    /\ company_symbols = <<>>
    /\ insert_batch_size = BatchSize
    /\ statements = <<>>
    /\ company0 = {}
    /\ plan = <<>>

\* No sync job has run yet; the price table is empty.
Quiescent ==
    /\ today = FirstDay
    /\ table = {}
    /\ latest_dates = LatestDates({})
    /\ run = 0
    /\ lookback_days = 0
    /\ num_threads = 1
    /\ queue = <<>>
    /\ unfinished = 0
    /\ caught_exceptions = <<>>
    /\ wpc = [w \in Workers |-> "off"]
    /\ warg = [w \in Workers |-> "none"]
    /\ wrows = [w \in Workers |-> <<>>]
    /\ staged = [s \in SymbolSet |-> <<>>]
    /\ result = "none"
    /\ raised = NoExc
    /\ pe = "none"
    /\ calls = [s \in SymbolSet |-> 0]
    /\ callDay = [s \in SymbolSet |-> 0]
    /\ fetches = [s \in SymbolSet |-> <<>>]
    /\ writes = [s \in SymbolSet |-> 0]
    /\ thrown = {}
    /\ logs = {}
    /\ snapshot = [table |-> {}, day |-> FirstDay]
    /\ prev = [result |-> "none", day |-> FirstDay, lookback |-> 0, mergeExc |-> NoExc]
    /\ mergeExc = NoExc

Init ==
    /\ backend \in Backends
    /\ unknown \in {{}, {"BAD"}}
    /\ pc = "idle"
    /\ Quiescent
    /\ din = <<>>
    /\ dout = <<>>
    /\ lastMerged = <<>>
    /\ RegistryIdle

Next ==
    \/ \E lookback \in LookbackChoices, nthreads \in ThreadChoices : StartSync(lookback, nthreads)
    \/ \E w \in Workers : WorkerGet(w)
    \/ \E w \in Workers : WorkerCall(w)
    \/ \E w \in Workers : WorkerStore(w)
    \/ Join
    \/ MergeStaged
    \/ Tick

Spec == Init /\ [][Next]_vars

(* ------------- the worker pool for any --concurrency value ---------- *)
\* --concurrency is type=int: zero and negative values are accepted and passed
\* to parallel_execute as num_threads.
AcceptedThreads == (0 - 1)..MaxThreads

InitPool ==
    /\ backend = "postgres"
    /\ unknown \in {{}, {"BAD"}}
    /\ pc = "idle"
    /\ Quiescent
    /\ din = <<>>
    /\ dout = <<>>
    /\ lastMerged = <<>>
    /\ RegistryIdle

NextPool ==
    \/ \E lookback \in LookbackChoices, nthreads \in AcceptedThreads :
          StartSync(lookback, nthreads)
    \/ \E w \in Workers : WorkerGet(w)
    \/ \E w \in Workers : WorkerCall(w)
    \/ \E w \in Workers : WorkerStore(w)
    \/ Join
    \/ Tick

\* Every started thread runs, every invocation of the per-symbol function
\* ends, and the main thread returns from queue.join() once it can.
PoolFairness ==
    /\ WF_vars(\E w \in Workers : WorkerGet(w))
    /\ WF_vars(\E w \in Workers : WorkerCall(w))
    /\ WF_vars(\E w \in Workers : WorkerStore(w))
    /\ WF_vars(Join)

SpecPool == InitPool /\ [][NextPool]_vars /\ PoolFairness

(* ------------------ the deduplication step on its own --------------- *)
DedupMaxLen == 3

DedupRows ==
    {[symbol |-> s, date |-> d, open |-> o, high |-> 13, low |-> 0, close |-> c,
      extracted_at |-> 1] : s \in {"AAA", "CCC"}, d \in {1, 2}, o \in {1, 2}, c \in {10, 12}}

SystemVars ==
    <<backend, today, unknown, table, latest_dates, run, lookback_days, num_threads,
      queue, unfinished, caught_exceptions, wpc, warg, wrows, staged, result, raised,
      pe, calls, callDay, fetches, writes, thrown, logs, snapshot, prev, mergeExc>>

InitDedup ==
    /\ backend = "postgres"
    /\ unknown = {}
    /\ pc = "dedup"
    /\ Quiescent
    /\ din \in UNION {[1..n -> DedupRows] : n \in 0..DedupMaxLen}
    /\ dout = <<>>
    /\ lastMerged = <<>>
    /\ RegistryIdle

\* price_df = price_df.loc[price_df.groupby(['date','symbol'])['close'].idxmax()]
DedupStep ==
    /\ pc = "dedup"
    /\ dout' = Deduplicate(din)
    /\ pc' = "deduped"
    /\ UNCHANGED <<din, lastMerged>>
    /\ UNCHANGED SystemVars
    /\ UNCHANGED RegistryVars

NextDedup == DedupStep

SpecDedup == InitDedup /\ [][NextDedup]_vars

(* ----------------------- the merge on its own ----------------------- *)
MergeKeys == {<<"AAA", d>> : d \in {1, 2}}

MergeRows ==
    {[symbol |-> k[1], date |-> k[2], open |-> c - 1, high |-> c + 1, low |-> c - 2,
      close |-> c, extracted_at |-> e] : k \in MergeKeys, c \in {10, 15}, e \in {1, 2}}

\* What each sink variant does with a batch of rows to store.
SinkMerge(b, t, rows) ==
    IF b = "postgres" THEN Committed(t, Batches(rows, 1, <<>>, BatchSize), 1)
    ELSE Merge(b, t, rows)

InitMerge ==
    /\ backend \in Backends
    /\ unknown = {}
    /\ pc = "merging"
    /\ Quiescent
    /\ din = <<>>
    /\ dout = <<>>
    /\ lastMerged = [k \in MergeKeys |-> <<>>]
    /\ RegistryIdle

MergeRow(r) ==
    /\ pc = "merging"
    /\ table' = SinkMerge(backend, table, <<r>>)
    /\ lastMerged' = [lastMerged EXCEPT ![Key(r)] =
                         IF @ = <<>> THEN <<r>> ELSE <<@[Len(@)], r>>]
    /\ UNCHANGED <<backend, today, unknown, latest_dates, pc, run, lookback_days,
                   num_threads, queue, unfinished, caught_exceptions, wpc, warg, wrows,
                   staged, result, raised, pe, calls, callDay, fetches, writes, thrown,
                   logs, snapshot, prev, din, dout, mergeExc>>
    /\ UNCHANGED RegistryVars

NextMerge == \E r \in MergeRows : MergeRow(r)

SpecMerge == InitMerge /\ [][NextMerge]_vars

(* ------------------------- the registry sync ------------------------ *)
MaxListed == 3
PageSize == 2

CompanyBatchSize == 100

ListedSymbols == {"AAA", "CCC", "DDD", "EEE"}
RegRank(s) ==
    CASE s = "AAA" -> 1 [] s = "CCC" -> 2 [] s = "DDD" -> 3 [] s = "EEE" -> 4 [] OTHER -> 5

\* Company names are sequences of characters; one of them holds an apostrophe.
NameChoices == {<<"a">>, <<"a", "'", "s">>}

\* A row of the company search of the site.
ListedRow(s, name, sector) ==
    [symbol |-> s, company_name |-> name, sector |-> sector, subsector |-> "sub",
     listing_date |-> 1]

\* The entity lists the site may show: one to MaxListed distinct symbols in any
\* order, one name and sector for the run.
SymbolSeqs ==
    {q \in UNION {[1..n -> ListedSymbols] : n \in 1..MaxListed} :
        \A i, j \in 1..Len(q) : q[i] = q[j] => i = j}

Listings ==
    {[i \in 1..Len(q) |-> ListedRow(q[i], name, sector)] :
        q \in SymbolSeqs, name \in NameChoices, sector \in {"fin", "ind"}}

\* x.replace('\'', '\'\''): every apostrophe is doubled.
RECURSIVE EscapeQuotes(_)
EscapeQuotes(name) ==
    IF name = <<>> THEN <<>>
    ELSE (IF Head(name) = "'" THEN <<"'", "'">> ELSE <<Head(name)>>)
             \o EscapeQuotes(Tail(name))

\* The page of the site with number page_num.
Page(list, page_num) ==
    SubSeq(list, (page_num - 1) * PageSize + 1,
           IF page_num * PageSize < Len(list) THEN page_num * PageSize ELSE Len(list))
PageCount(list) == (Len(list) + PageSize - 1) \div PageSize

\* get_listed_companies after the last page: rename, convert, select.
CompaniesDf(rows, stamp) ==
    [i \in 1..Len(rows) |->
        [symbol |-> rows[i].symbol, company_name |-> EscapeQuotes(rows[i].company_name),
         sector |-> rows[i].sector, subsector |-> rows[i].subsector,
         listing_date |-> rows[i].listing_date, extracted_at |-> stamp]]

\* The text between the quotes of the SQL literal '<company_name>' as Postgres
\* reads it: two apostrophes stand for one.
RECURSIVE PgLiteral(_)
PgLiteral(str) ==
    IF str = <<>> THEN <<>>
    ELSE IF Len(str) >= 2 /\ str[1] = "'" /\ str[2] = "'"
         THEN <<"'">> \o PgLiteral(Tail(Tail(str)))
         ELSE <<Head(str)>> \o PgLiteral(Tail(str))

\* row_str.replace("''", "\\'") of the BigQuery variant, on the name.
RECURSIVE BqEscape(_)
BqEscape(str) ==
    IF str = <<>> THEN <<>>
    ELSE IF Len(str) >= 2 /\ str[1] = "'" /\ str[2] = "'"
         THEN <<"\\", "'">> \o BqEscape(Tail(Tail(str)))
         ELSE <<Head(str)>> \o BqEscape(Tail(str))

\* The same text as BigQuery reads it: a backslash escapes the next character.
RECURSIVE BqLiteral(_)
BqLiteral(str) ==
    IF str = <<>> THEN <<>>
    ELSE IF Len(str) >= 2 /\ str[1] = "\\"
         THEN <<str[2]>> \o BqLiteral(Tail(Tail(str)))
         ELSE <<Head(str)>> \o BqLiteral(Tail(str))

\* The row a VALUES tuple built from a row of source_data stores.
StoredCompany(b, r) ==
    [r EXCEPT !.company_name =
        IF b = "postgres" THEN PgLiteral(r.company_name)
        ELSE IF b = "bigquery" THEN BqLiteral(BqEscape(r.company_name))
        ELSE r.company_name]

\* The variants that upsert by symbol; the Delta Lake ones overwrite the table.
KeyedUpsert(b) == b \in {"postgres", "bigquery"}

\* Mutant: ON CONFLICT DO NOTHING.
CompanyInsertNew(b, t, rows) ==
    t \cup {StoredCompany(b, rows[i]) : i \in
               {j \in 1..Len(rows) : rows[j].symbol \notin {x.symbol : x \in t}}}

\* INSERT INTO pse.company ... ON CONFLICT (symbol) DO UPDATE SET <every column>;
\* for BigQuery the upsert statement of bigquery_dml__upsert_company.sql.
CompanyUpsert(b, t, rows) ==
    {x \in t : x.symbol \notin {rows[i].symbol : i \in 1..Len(rows)}}
        \cup {StoredCompany(b, rows[i]) : i \in 1..Len(rows)}

\* mode='overwrite': the table holds the rows of the data frame.
CompanyOverwrite(b, t, rows) == {StoredCompany(b, rows[i]) : i \in 1..Len(rows)}

\* The symbols of the company table in the order _refresh_metadata lists them:
\* ORDER BY symbol, except for Spark, whose order is that of the table scan.
RECURSIVE SortedSymbols(_)
SortedSymbols(S) ==
    IF S = {} THEN <<>>
    ELSE LET m == CHOOSE x \in S : \A y \in S : RegRank(x) <= RegRank(y)
         IN <<m>> \o SortedSymbols(S \ {m})

SymbolLists(b, t) ==
    LET S == {x.symbol : x \in t}
    IN IF b = "spark"
       THEN {l \in [1..Cardinality(S) -> S] : {l[i] : i \in 1..Len(l)} = S}
       ELSE {SortedSymbols(S)}

\* Rows the company table may hold before the sync: older attributes, one of
\* them for a symbol the source no longer lists.
PriorRows ==
    {[symbol |-> s, company_name |-> <<"o">>, sector |-> "old", subsector |-> "sub",
      listing_date |-> 1, extracted_at |-> 0] : s \in {"AAA", "ZZZ"}}

RECURSIVE ConcatPages(_)
ConcatPages(pages) ==
    IF pages = <<>> THEN <<>> ELSE Head(pages) \o ConcatPages(Tail(pages))

InitRegistry ==
    /\ backend \in Backends
    /\ unknown = {}
    /\ pc = "fetch"
    /\ Quiescent
    /\ din = <<>>
    /\ dout = <<>>
    /\ lastMerged = <<>>
    /\ listing \in Listings
    /\ company \in SUBSET PriorRows
    /\ company0 = company
    /\ company_symbols \in SymbolLists(backend, company)
    /\ insert_batch_size \in (IF KeyedUpsert(backend) THEN {1, 2, CompanyBatchSize}
                       ELSE {CompanyBatchSize})
    /\ extract_df_list = <<>>
    /\ source_data = <<>>
    /\ statements = <<>>
    /\ plan = <<>>

\* Mutant: the first page is taken for the whole list.
FetchDoneAfterFirstPage(page_num, list) == page_num >= 1

\* get_listed_companies leaves its page loop after page page_count.
FetchDone(page_num, list) == page_num = PageCount(list)

RegistryFrame ==
    UNCHANGED <<backend, today, unknown, table, latest_dates, run, lookback_days,
                num_threads, queue, unfinished, caught_exceptions, wpc, warg, wrows,
                staged, pe, calls, callDay, fetches, writes, thrown, logs, snapshot,
                prev, din, dout, lastMerged, mergeExc, listing, company0, plan,
                insert_batch_size>>

\* get_listed_companies: one request for a page of the company search; after
\* the last page the result is converted and returned to sync_db / sync_table.
FetchPage ==
    /\ pc = "fetch"
    /\ LET page_num == Len(extract_df_list) + 1
       IN /\ extract_df_list' = Append(extract_df_list, Page(listing, page_num))
          /\ IF FetchDone(page_num, listing)
             THEN /\ source_data' = CompaniesDf(ConcatPages(extract_df_list'), 1)
                  /\ pc' = "upsert"
             ELSE UNCHANGED <<source_data, pc>>
    /\ UNCHANGED <<company, company_symbols, statements, result, raised>>
    /\ RegistryFrame

\* A request of get_listed_companies fails: the exception leaves sync_db.
FetchFail ==
    /\ pc = "fetch"
    /\ pc' = "aborted"
    /\ result' = "raised"
    /\ raised' = GenericException("source")
    /\ UNCHANGED <<company, company_symbols, statements, extract_df_list, source_data>>
    /\ RegistryFrame

\* PSECompaniesDataset.sync_db of the upserting variants: the next statement of
\* the batching loop; after the last one, _refresh_metadata.
UpsertStatement ==
    /\ pc = "upsert"
    /\ KeyedUpsert(backend)
    /\ LET batches == Batches(source_data, 1, <<>>, insert_batch_size)
           k == Len(statements) + 1
       IN \/ /\ company' = CompanyUpsert(backend, company, batches[k])
             /\ statements' = Append(statements, batches[k])
             /\ IF k = Len(batches)
                THEN /\ company_symbols' \in SymbolLists(backend, company')
                     /\ pc' = "done"
                     /\ result' = "returned"
                ELSE UNCHANGED <<company_symbols, pc, result>>
             /\ UNCHANGED raised
          \/ /\ pc' = "aborted"
             /\ result' = "raised"
             /\ raised' = GenericException("sink")
             /\ UNCHANGED <<company, company_symbols, statements>>
    /\ UNCHANGED <<extract_df_list, source_data>>
    /\ RegistryFrame

\* PSECompaniesDataset.sync_table of the Delta Lake variants: overwrite the
\* table with the fetched rows, then _refresh_metadata.
OverwriteTable ==
    /\ pc = "upsert"
    /\ ~KeyedUpsert(backend)
    /\ \/ /\ company' = CompanyOverwrite(backend, company, source_data)
          /\ statements' = Append(statements, source_data)
          /\ company_symbols' \in SymbolLists(backend, company')
          /\ pc' = "done"
          /\ result' = "returned"
          /\ UNCHANGED raised
       \/ /\ pc' = "aborted"
          /\ result' = "raised"
          /\ raised' = GenericException("sink")
          /\ UNCHANGED <<company, company_symbols, statements>>
    /\ UNCHANGED <<extract_df_list, source_data>>
    /\ RegistryFrame

NextRegistry == FetchPage \/ FetchFail \/ UpsertStatement \/ OverwriteTable

SpecRegistry == InitRegistry /\ [][NextRegistry]_vars

(* ------------------- the fetch window on its own -------------------- *)
\* What the per-symbol function asks of the source for a symbol: nothing on the
\* skip path, else the window [start, end].
Request(b, ld, s, lookback, day) ==
    LET current_end_date == CurrentEndDate(ld, s)
        target_start_date == TargetStartDate(current_end_date, lookback)
        target_end_date == TargetEndDate(day, FreshnessDays)
    IN IF SkipCondition(b, lookback, current_end_date, target_end_date)
       THEN [skip |-> TRUE, start |-> 0, end |-> 0]
       ELSE [skip |-> FALSE, start |-> target_start_date, end |-> target_end_date]

\* Any FreshnessMap: an entry for some of the symbols, any stored date.
FreshnessMaps == UNION {[S -> 1..MaxDay] : S \in SUBSET SymbolSet}

InitWindow ==
    /\ backend \in Backends
    /\ unknown = {}
    /\ pc = "plan"
    /\ today \in FirstDay..MaxDay
    /\ latest_dates \in FreshnessMaps
    /\ table = {}
    /\ run = 0
    /\ lookback_days = 0
    /\ num_threads = 1
    /\ queue = <<>>
    /\ unfinished = 0
    /\ caught_exceptions = <<>>
    /\ wpc = [w \in Workers |-> "off"]
    /\ warg = [w \in Workers |-> "none"]
    /\ wrows = [w \in Workers |-> <<>>]
    /\ staged = [s \in SymbolSet |-> <<>>]
    /\ result = "none"
    /\ raised = NoExc
    /\ pe = "none"
    /\ calls = [s \in SymbolSet |-> 0]
    /\ callDay = [s \in SymbolSet |-> 0]
    /\ fetches = [s \in SymbolSet |-> <<>>]
    /\ writes = [s \in SymbolSet |-> 0]
    /\ thrown = {}
    /\ logs = {}
    /\ snapshot = [table |-> {}, day |-> FirstDay]
    /\ prev = [result |-> "none", day |-> FirstDay, lookback |-> 0, mergeExc |-> NoExc]
    /\ mergeExc = NoExc
    /\ din = <<>>
    /\ dout = <<>>
    /\ lastMerged = <<>>
    /\ RegistryIdle

\* sync() and backfill() from the same state and clock: the request of every
\* symbol under lookback_days = 0 and under lookback_days = 365*100.
PlanWindows ==
    /\ pc = "plan"
    /\ plan' = [l \in LookbackChoices |->
                   [s \in SymbolSet |-> Request(backend, latest_dates, s, l, today)]]
    /\ pc' = "planned"
    /\ UNCHANGED <<backend, today, unknown, table, latest_dates, run, lookback_days,
                   num_threads, queue, unfinished, caught_exceptions, wpc, warg, wrows,
                   staged, result, raised, pe, calls, callDay, fetches, writes, thrown,
                   logs, snapshot, prev, din, dout, lastMerged, mergeExc, listing,
                   company, extract_df_list, source_data, company_symbols,
                   insert_batch_size, statements, company0>>

NextWindow == PlanWindows

SpecWindow == InitWindow /\ [][NextWindow]_vars

(* ------------------- the batched insert on its own ------------------ *)
BatchMaxLen == 3
MaxBatch == 4

\* Data frames of up to BatchMaxLen rows with distinct keys, as the
\* deduplication leaves them.
BatchInputs ==
    {q \in UNION {[1..n -> DedupRows] : n \in 0..BatchMaxLen} : DistinctKeys(q)}

\* A row stored earlier for one of the keys.
StoredBefore ==
    [symbol |-> "AAA", date |-> 1, open |-> 5, high |-> 13, low |-> 0, close |-> 6,
     extracted_at |-> 0]

InitBatch ==
    /\ backend = "postgres"
    /\ unknown = {}
    /\ pc = "insert"
    /\ today = FirstDay
    /\ table \in {{}, {StoredBefore}}
    /\ snapshot = [table |-> table, day |-> FirstDay]
    /\ latest_dates = LatestDates(table)
    /\ run = 0
    /\ lookback_days = 0
    /\ num_threads = 1
    /\ queue = <<>>
    /\ unfinished = 0
    /\ caught_exceptions = <<>>
    /\ wpc = [w \in Workers |-> "off"]
    /\ warg = [w \in Workers |-> "none"]
    /\ wrows = [w \in Workers |-> <<>>]
    /\ staged = [s \in SymbolSet |-> <<>>]
    /\ result = "none"
    /\ raised = NoExc
    /\ pe = "none"
    /\ calls = [s \in SymbolSet |-> 0]
    /\ callDay = [s \in SymbolSet |-> 0]
    /\ fetches = [s \in SymbolSet |-> <<>>]
    /\ writes = [s \in SymbolSet |-> 0]
    /\ thrown = {}
    /\ logs = {}
    /\ prev = [result |-> "none", day |-> FirstDay, lookback |-> 0, mergeExc |-> NoExc]
    /\ mergeExc = NoExc
    /\ din \in BatchInputs
    /\ dout = <<>>
    /\ lastMerged = <<>>
    /\ listing = <<>>
    /\ company = {}
    /\ extract_df_list = <<>>
    /\ source_data = <<>>
    /\ company_symbols = <<>>
    /\ insert_batch_size \in 1..MaxBatch
    /\ statements = <<>>
    /\ company0 = {}
    /\ plan = <<>>

\* _insert_price_data_to_db(df, batch_size): every statement of the loop is
\* issued and committed.
InsertBatched ==
    /\ pc = "insert"
    /\ statements' = Batches(din, 1, <<>>, insert_batch_size)
    /\ table' = Committed(table, statements', Len(statements'))
    /\ pc' = "inserted"
    /\ UNCHANGED <<backend, today, unknown, latest_dates, run, lookback_days,
                   num_threads, queue, unfinished, caught_exceptions, wpc, warg, wrows,
                   staged, result, raised, pe, calls, callDay, fetches, writes, thrown,
                   logs, snapshot, prev, din, dout, lastMerged, mergeExc, listing,
                   company, extract_df_list, source_data, company_symbols,
                   insert_batch_size, company0, plan>>

NextBatch == InsertBatched

SpecBatch == InitBatch /\ [][NextBatch]_vars

(* ------------- one symbol's insert failing part-way ----------------- *)
\* The tables an earlier complete sync of AAA up to day d has left.
StoredUpTo(d) == SeqRows(Deduplicate(get_stock_data("AAA", 1, d, 0)))

InitPartial ==
    /\ backend = "postgres"
    /\ unknown = {}
    /\ pc = "sync_symbol"
    /\ today \in FirstDay..MaxDay
    /\ table \in {StoredUpTo(d) : d \in 0..(FirstDay - 1)}
    /\ snapshot = [table |-> table, day |-> today]
    /\ latest_dates = LatestDates(table)
    /\ run = 1
    /\ lookback_days \in LookbackChoices
    /\ num_threads = 1
    /\ queue = <<>>
    /\ unfinished = 0
    /\ caught_exceptions = <<>>
    /\ wpc = [w \in Workers |-> "off"]
    /\ warg = [w \in Workers |-> "none"]
    /\ wrows = [w \in Workers |-> <<>>]
    /\ staged = [s \in SymbolSet |-> <<>>]
    /\ result = "none"
    /\ raised = NoExc
    /\ pe = "none"
    /\ calls = [s \in SymbolSet |-> 0]
    /\ callDay = [s \in SymbolSet |-> 0]
    /\ fetches = [s \in SymbolSet |-> <<>>]
    /\ writes = [s \in SymbolSet |-> 0]
    /\ thrown = {}
    /\ logs = {}
    /\ prev = [result |-> "none", day |-> FirstDay, lookback |-> 0, mergeExc |-> NoExc]
    /\ mergeExc = NoExc
    /\ din = <<>>
    /\ dout = <<>>
    /\ lastMerged = <<>>
    /\ listing = <<>>
    /\ company = {}
    /\ extract_df_list = <<>>
    /\ source_data = <<>>
    /\ company_symbols = <<>>
    /\ insert_batch_size \in 1..MaxBatch
    /\ statements = <<>>
    /\ company0 = {}
    /\ plan = <<>>

PartialFrame ==
    UNCHANGED <<backend, unknown, run, lookback_days, num_threads, queue, unfinished,
                caught_exceptions, wpc, warg, wrows, staged, pe, calls, callDay,
                fetches, writes, thrown, logs, snapshot, prev, mergeExc, lastMerged,
                listing, company, extract_df_list, source_data, company_symbols,
                insert_batch_size, company0>>

\* sync_symbol for AAA: the fetch, the deduplication and the batching loop,
\* which commits statement after statement and may fail at any of them.
SyncSymbolPartial ==
    /\ pc = "sync_symbol"
    /\ LET req == Request(backend, latest_dates, "AAA", lookback_days, today)
       IN IF req.skip
          THEN /\ pc' = "skipped"
               /\ result' = "returned"
               /\ UNCHANGED <<din, dout, statements, table, raised>>
          ELSE LET price_df == Deduplicate(get_stock_data("AAA", req.start, req.end, run))
                   batches == Batches(price_df, 1, <<>>, insert_batch_size)
               IN \E k \in 0..Len(batches) :
                     /\ din' = price_df
                     /\ statements' = SubSeq(batches, 1, k)
                     /\ table' = Committed(table, batches, k)
                     /\ dout' = ConcatPages(SubSeq(batches, k + 1, Len(batches)))
                     /\ IF k = Len(batches)
                        THEN /\ pc' = "synced"
                             /\ result' = "returned"
                             /\ UNCHANGED raised
                        ELSE /\ pc' = "failed"
                             /\ result' = "raised"
                             /\ raised' = GenericException("AAA")
    /\ UNCHANGED <<today, latest_dates, plan>>
    /\ PartialFrame

\* A later sync(): a new dataset object reads the latest dates from the sink
\* and sync_symbol computes AAA's request with lookback_days = 0.
LaterSync ==
    /\ pc = "failed"
    /\ \E day \in today..MaxDay :
          /\ today' = day
          /\ latest_dates' = LatestDates(table)
          /\ plan' = Request(backend, latest_dates', "AAA", 0, day)
    /\ pc' = "later"
    /\ UNCHANGED <<table, din, dout, statements, result, raised>>
    /\ PartialFrame

NextPartial == SyncSymbolPartial \/ LaterSync

SpecPartial == InitPartial /\ [][NextPartial]_vars

(* --------------------------- the initdb action ---------------------- *)
DB_OPTIONS == {"postgres", "bigquery", "deltalake"}

\* The SQL files create_tables runs, in order.
SchemaScripts(b) ==
    IF b = "postgres"
    THEN <<"trigger_set_timestamp.sql", "company.sql", "daily_stock_price.sql">>
    ELSE <<"company.sql", "daily_stock_price.sql">>

\* The effect of a schema file on the rows of its table: the schema is
\* initialized, the rows stay.
RunSchemaScript(rows) == rows

\* The price tables earlier complete syncs have left.
StoredPrices ==
    {StoredUpTo(d) \cup SeqRows(Deduplicate(get_stock_data("CCC", 1, c, 0))) :
        d \in 0..(FirstDay - 1), c \in 0..1}

InitInitDb ==
    /\ backend \in DB_OPTIONS
    /\ unknown = {}
    /\ pc = "initdb"
    /\ today = FirstDay
    /\ table \in StoredPrices
    /\ snapshot = [table |-> table, day |-> today]
    /\ latest_dates = LatestDates(table)
    /\ run = 0
    /\ lookback_days = 0
    /\ num_threads = 1
    /\ queue = <<>>
    /\ unfinished = 0
    /\ caught_exceptions = <<>>
    /\ wpc = [w \in Workers |-> "off"]
    /\ warg = [w \in Workers |-> "none"]
    /\ wrows = [w \in Workers |-> <<>>]
    /\ staged = [s \in SymbolSet |-> <<>>]
    /\ result = "none"
    /\ raised = NoExc
    /\ pe = "none"
    /\ calls = [s \in SymbolSet |-> 0]
    /\ callDay = [s \in SymbolSet |-> 0]
    /\ fetches = [s \in SymbolSet |-> <<>>]
    /\ writes = [s \in SymbolSet |-> 0]
    /\ thrown = {}
    /\ logs = {}
    /\ prev = [result |-> "none", day |-> FirstDay, lookback |-> 0, mergeExc |-> NoExc]
    /\ mergeExc = NoExc
    /\ din = <<>>
    /\ dout = <<>>
    /\ lastMerged = <<>>
    /\ listing = <<>>
    /\ company \in SUBSET PriorRows
    /\ company0 = company
    /\ extract_df_list = <<>>
    /\ source_data = <<>>
    /\ company_symbols = <<>>
    /\ insert_batch_size = BatchSize
    /\ statements = <<>>
    /\ plan = <<>>

InitDbFrame ==
    UNCHANGED <<backend, unknown, today, run, lookback_days, num_threads, queue,
                unfinished, caught_exceptions, wpc, warg, wrows, staged, result, raised,
                pe, calls, callDay, fetches, writes, thrown, logs, snapshot, prev,
                mergeExc, din, dout, lastMerged, listing, extract_df_list, source_data,
                company_symbols, insert_batch_size, company0, plan>>

\* postgres / bigquery: create_tables runs its next SQL file.
CreateTablesStep ==
    /\ pc = "initdb"
    /\ backend \in {"postgres", "bigquery"}
    /\ LET scripts == SchemaScripts(backend)
           file == scripts[Len(statements) + 1]
       IN /\ statements' = Append(statements, file)
          /\ company' = IF file = "company.sql" THEN RunSchemaScript(company) ELSE company
          /\ table' = IF file = "daily_stock_price.sql" THEN RunSchemaScript(table) ELSE table
          /\ pc' = IF Len(statements') = Len(scripts) THEN "done" ELSE "initdb"
    /\ UNCHANGED latest_dates
    /\ InitDbFrame

\* deltalake: delete_tables, first PSECompaniesDataset()._delete_delta_table().
DeleteCompanyTable ==
    /\ pc = "initdb"
    /\ backend = "deltalake"
    /\ company' = {}
    /\ pc' = "company_deleted"
    /\ UNCHANGED <<table, latest_dates, statements>>
    /\ InitDbFrame

\* then DailyStockPriceDataset(...)._delete_delta_table(), which refreshes
\* the metadata.
DeletePriceTable ==
    /\ pc = "company_deleted"
    /\ table' = {}
    /\ latest_dates' = LatestDates(table')
    /\ pc' = "done"
    /\ UNCHANGED <<company, statements>>
    /\ InitDbFrame

NextInitDb == CreateTablesStep \/ DeleteCompanyTable \/ DeletePriceTable

SpecInitDb == InitInitDb /\ [][NextInitDb]_vars

(* ============================== claims ============================== *)
Stored(s) == IF s \in DOMAIN latest_dates THEN latest_dates[s] ELSE 0
InFanOut == pc \in {"join", "merge"}
RunEnded == pc = "idle" /\ run >= 1
NoGenericFailure ==
    /\ \A e \in thrown : e.kind = "UnknownSymbolException"
    /\ raised.kind # "Exception"
    /\ mergeExc = NoExc

\* C1: every fetch the price sync issues asks for the window
\* start = latest + 1 day - lookback_days, end = today (UTC+8) - freshness_days,
\* latest being the symbol's FreshnessMap entry or 1970-01-01 when it has none.
C1_FetchWindow ==
    InFanOut =>
        \A s \in SymbolSet : \A i \in 1..Len(fetches[s]) :
            /\ fetches[s][i].start = Stored(s) + 1 - lookback_days
            /\ fetches[s][i].end = callDay[s] - 1

\* latest = d, today = d + 2, freshness_days = 1, lookback_days = 0: start = end = d + 1.
C1_Witness ==
    /\ InFanOut
    /\ lookback_days = 0
    /\ "AAA" \in DOMAIN latest_dates
    /\ callDay["AAA"] = latest_dates["AAA"] + 2
    /\ fetches["AAA"] = <<[start |-> latest_dates["AAA"] + 1, end |-> latest_dates["AAA"] + 1]>>

\* C2: with lookback_days = 0, a symbol whose latest stored date equals
\* target_end is not fetched and nothing is written for it.
C2_SkipIssuesNoFetch ==
    InFanOut /\ lookback_days = 0 =>
        \A s \in SymbolSet :
            calls[s] > 0 /\ Stored(s) = callDay[s] - 1 =>
                fetches[s] = <<>> /\ writes[s] = 0

\* Two incremental syncs in succession on one source day, the first having
\* returned normally with no failure of its load/merge step; the state is in
\* or after the second.
SyncTwice ==
    /\ run >= 2
    /\ prev.lookback = 0
    /\ lookback_days = 0
    /\ prev.result = "returned"
    /\ prev.mergeExc = NoExc
    /\ prev.day = today

C4_OneRowPerKey ==
    \A r1, r2 \in table : Key(r1) = Key(r2) => r1 = r2

\* A backfill that completed over rows stored by an earlier run, for a symbol
\* whose source data repeats a date.
C4_Witness ==
    /\ RunEnded
    /\ result = "returned"
    /\ lookback_days = BackfillLookback
    /\ \E r \in snapshot.table : r.symbol = "AAA" /\ r.date = 1 /\ r.extracted_at = 1
    /\ \E r \in table : r.symbol = "AAA" /\ r.date = 1 /\ r.extracted_at = 2

\* C5: the deduplication keeps, for every (symbol, date) group of its input,
\* exactly one row: the one with the maximum close, the earliest on ties.
C5_KeepsMaxClose ==
    pc = "deduped" =>
        /\ SeqKeys(dout) = SeqKeys(din)
        /\ DistinctKeys(dout)
        /\ \A j \in 1..Len(dout) :
              \E i \in 1..Len(din) :
                  /\ din[i] = dout[j]
                  /\ \A m \in 1..Len(din) :
                        Key(din[m]) = Key(din[i]) =>
                            /\ din[m].close <= din[i].close
                            /\ m < i => din[m].close < din[i].close

\* A group of three with the maximum close twice: the first of the two is kept.
C5_Witness ==
    /\ pc = "deduped"
    /\ Len(din) = 3
    /\ \A i \in 1..3 : Key(din[i]) = <<"AAA", 1>>
    /\ din[1].close = 10 /\ din[2].close = 12 /\ din[3].close = 12
    /\ din[2].open # din[3].open
    /\ dout = <<din[2]>>

\* C6: after a row r1 and then a row r2 with the same (symbol, date) were
\* merged, the sink holds exactly one row for that key, equal to r2 in every
\* attribute.
C6_LastMergeWins ==
    pc = "merging" =>
        \A k \in MergeKeys :
            LET stored == {r \in table : Key(r) = k}
            IN IF lastMerged[k] = <<>> THEN stored = {}
               ELSE LET r2 == lastMerged[k][Len(lastMerged[k])]
                    IN /\ Cardinality(stored) = 1
                       /\ \A r \in stored :
                             /\ r.open = r2.open /\ r.high = r2.high /\ r.low = r2.low
                             /\ r.close = r2.close /\ r.extracted_at = r2.extracted_at

\* close = 10 then close = 15 leaves one row with close = 15.
C6_Witness ==
    /\ pc = "merging"
    /\ \E k \in MergeKeys :
          /\ Len(lastMerged[k]) = 2
          /\ lastMerged[k][1].close = 10
          /\ lastMerged[k][2].close = 15
          /\ {r.close : r \in {x \in table : Key(x) = k}} = {15}

\* C7: with symbols [AAA, BAD, CCC] and BAD unknown to the source, the rows
\* fetched for AAA and CCC are stored when the run ends, and exactly one
\* symbol is reported as failed.
C7_UnknownSymbolIsolated ==
    RunEnded /\ unknown = {"BAD"} /\ NoGenericFailure =>
        /\ \A s \in {"AAA", "CCC"} : \A i \in 1..Len(fetches[s]) :
              \A r \in SeqRows(get_stock_data(s, fetches[s][i].start, fetches[s][i].end, run)) :
                  r \in table
        /\ \/ {l.symbol : l \in {x \in logs : x.msg = "unknown-symbol"}} = {"BAD"}
           \/ \E l \in logs : l.msg = "errors-occurred" /\ l.n = 1

\* C8: an unknown symbol is fetched at most once, nothing is written for it,
\* and a run whose only failures are unknown symbols returns normally.
C8_UnknownSymbolNotFatal ==
    /\ \A s \in unknown : Len(fetches[s]) <= 1 /\ writes[s] = 0
    /\ RunEnded /\ NoGenericFailure => result = "returned"

\* C9: parallel_execute invokes func exactly once per element of args,
\* whether or not other invocations raise.
C9_EachSymbolOnce ==
    /\ \A s \in SymbolSet : calls[s] <= 1
    /\ pe \in {"returned", "raised"} => \A s \in SymbolSet : calls[s] = 1

C9_Witness ==
    /\ pe = "raised"
    /\ thrown # {}
    /\ \A s \in SymbolSet : calls[s] = 1

\* C10: parallel_execute raises exactly when an invocation raised, only after
\* the queue has drained and every symbol was attempted, and what it raises
\* is an exception that left an invocation.
C10_RaisesIffFailed ==
    /\ pe = "raised" =>
          /\ thrown # {}
          /\ raised \in thrown
          /\ queue = <<>>
          /\ unfinished = 0
          /\ \A s \in SymbolSet : calls[s] >= 1
          /\ \A w \in Workers : wpc[w] \in {"off", "idle"}
    /\ pe = "returned" => thrown = {}

C10_Witness ==
    /\ pe = "raised"
    /\ Cardinality(thrown) >= 2
    /\ raised \in thrown

SymbolsOf(seq) == {seq[i] : i \in 1..Len(seq)}
ListedNow == {listing[i].symbol : i \in 1..Len(listing)}
SourceAborted == pc = "aborted" /\ raised = GenericException("source")

\* C11: after a registry sync the symbol list it exposes equals exactly the
\* set of symbols in the source's entity list of that run, whatever the
\* company table held before.
C11_SymbolsEqualSource ==
    pc = "done" => SymbolsOf(company_symbols) = ListedNow

C13_NoPartialUpsert ==
    /\ SourceAborted => company = company0 /\ statements = <<>>
    /\ statements # <<>> \/ company # company0 =>
          Len(extract_df_list) = PageCount(listing)

\* The second page of the list fails after the first was fetched.
C13_Witness ==
    /\ SourceAborted
    /\ Len(extract_df_list) = 1
    /\ PageCount(listing) = 2
    /\ company0 # {}

\* A price-table write operation of the dataset object has finished.
WriteFinished == RunEnded /\ result \in {"returned", "raised"}

\* C14: whenever a price-table write operation has finished, by returning or
\* by raising, latest_dates maps each symbol to the maximum date stored for it
\* in the sink and has no entry for a symbol without rows.
C14_FreshnessMapCurrent ==
    WriteFinished => latest_dates = LatestDates(table)

StagingCreated == \E s \in SymbolSet : writes[s] > 0
StagingClean == \A s \in SymbolSet : staged[s] = <<>>

\* C15: in a stage-then-merge sink, once the staging area of a run was
\* created, its cleanup has run when the sync operation ends, also when the
\* load or merge step failed.
C15_CleanupAfterMergeFailure ==
    RunEnded /\ Staging(backend) /\ StagingCreated /\ pe = "returned" => StagingClean

\* C16: in a stage-then-merge sink a failure of the load or merge step is
\* never swallowed: whenever that step raised, the sync operation ends by
\* raising.
C16_MergeFailurePropagates ==
    RunEnded /\ Staging(backend) /\ mergeExc # NoExc => result = "raised"

\* C19: every exception caught while a symbol is processed in the worker pool
\* produces a log record that identifies the symbol.
C19_CaughtExceptionLogged ==
    pe \in {"returned", "raised"} =>
        \A e \in thrown : \E l \in logs : l.symbol = e.symbol

FailedSymbols == {e.symbol : e \in {x \in thrown : x.kind = "Exception"}}

\* C20: when one symbol fails with a generic error in a stage-then-merge sink
\* (BigQuery, Delta Lake), the rows fetched for every other symbol in the run
\* are in the target table when the run ends.
C20_GenericFailureIsolated ==
    /\ RunEnded
    /\ backend \in {"bigquery", "deltalake"}
    /\ Cardinality(FailedSymbols) = 1
    /\ mergeExc = NoExc
    => \A s \in SymbolSet \ FailedSymbols : \A i \in 1..Len(fetches[s]) :
           s \notin unknown =>
               \A r \in SeqRows(Deduplicate(
                           get_stock_data(s, fetches[s][i].start, fetches[s][i].end, run))) :
                   r \in table

\* C17: from the same FreshnessMap and clock, backfill (lookback_days = 36500)
\* issues a fetch for every symbol for which incremental sync (lookback_days =
\* 0) issues one, and its window contains the window of the incremental sync.
C17_BackfillContainsSync ==
    pc = "planned" =>
        \A s \in SymbolSet :
            LET inc == plan[0][s]
                full == plan[BackfillLookback][s]
            IN ~inc.skip =>
                  /\ ~full.skip
                  /\ full.start <= inc.start
                  /\ inc.end <= full.end

\* AAA is behind by one day and fetched by both; CCC is up to date, skipped by
\* the incremental sync and fetched by the backfill.
C17_Witness ==
    /\ pc = "planned"
    /\ backend = "postgres"
    /\ "AAA" \in DOMAIN latest_dates /\ "CCC" \in DOMAIN latest_dates
    /\ ~plan[0]["AAA"].skip
    /\ plan[0]["AAA"].start = plan[0]["AAA"].end
    /\ plan[BackfillLookback]["AAA"].start < plan[0]["AAA"].start
    /\ plan[0]["CCC"].skip
    /\ ~plan[BackfillLookback]["CCC"].skip

\* C18: for every batch_size >= 1 and every row sequence with distinct keys,
\* the batched insert puts each input row in exactly one statement, issues no
\* statement with more than batch_size rows or with none, and leaves the sink
\* as a single upsert of all rows does.
C18_ChunkingHasNoEffect ==
    pc = "inserted" =>
        /\ \A i \in 1..Len(din) :
              Cardinality({kj \in {<<k, j>> : k \in 1..Len(statements), j \in 1..BatchMaxLen + 1} :
                              /\ kj[2] <= Len(statements[kj[1]])
                              /\ statements[kj[1]][kj[2]] = din[i]}) = 1
        /\ \A k \in 1..Len(statements) :
              Len(statements[k]) >= 1 /\ Len(statements[k]) <= insert_batch_size
        /\ table = Upsert(snapshot.table, din)

\* Three rows in batches of two: two statements, the second with one row, over
\* a stored row that the first statement replaces.
C18_Witness ==
    /\ pc = "inserted"
    /\ Len(din) = 3
    /\ insert_batch_size = 2
    /\ Len(statements) = 2
    /\ Len(statements[2]) = 1
    /\ StoredBefore \in snapshot.table
    /\ StoredBefore \notin table
    /\ Key(din[1]) = Key(StoredBefore)

InProgress == {w \in Workers : wpc[w] \in {"call", "store"}}
Finished(s) == calls[s] = 1 /\ \A w \in InProgress : warg[w] # s

\* C21: at most num_threads invocations of the per-symbol function are in
\* progress at any time, and with num_threads = 1 the symbols are processed
\* strictly one after another in list order.
C21_BoundedPool ==
    pc = "join" =>
        /\ Cardinality(InProgress) <= num_threads
        /\ num_threads = 1 =>
              /\ queue = SubSeq(symbols, Len(symbols) - Len(queue) + 1, Len(symbols))
              /\ \A i \in 1..Len(symbols) :
                    /\ calls[symbols[i]] > 0 =>
                          \A j \in 1..(i - 1) : Finished(symbols[j])
                    /\ (\E w \in InProgress : warg[w] = symbols[i]) =>
                          /\ \A j \in 1..(i - 1) : Finished(symbols[j])
                          /\ \A j \in (i + 1)..Len(symbols) : calls[symbols[j]] = 0

\* Two threads, both inside the per-symbol function at once.
C21_Witness ==
    /\ pc = "join"
    /\ num_threads = 2
    /\ Cardinality(InProgress) = 2
    /\ wpc[1] = "store" /\ wpc[2] = "store"

\* C22: during the fan-out no worker modifies latest_dates, so every window
\* is computed from the map as it was when the fan-out began, whatever other
\* workers have written to the sink since.
C22_MapFrozenInFanOut ==
    pc = "join" =>
        /\ latest_dates = LatestDates(snapshot.table)
        /\ \A s \in SymbolSet : \A i \in 1..Len(fetches[s]) :
              fetches[s][i].start =
                  CurrentEndDate(LatestDates(snapshot.table), s) + 1 - lookback_days

\* One thread on Postgres: AAA's rows are in the sink, the map has no entry for
\* AAA yet, and CCC was fetched after that.
C22_Witness ==
    /\ pc = "join"
    /\ backend = "postgres"
    /\ num_threads = 1
    /\ "AAA" \in DOMAIN LatestDates(table)
    /\ "AAA" \notin DOMAIN latest_dates
    /\ fetches["CCC"] # <<>>

\* The rows the run fetched for a symbol, deduplicated as the per-symbol
\* function does.
RECURSIVE FetchedRows(_, _)
FetchedRows(s, i) ==
    IF i > Len(fetches[s]) \/ s \in unknown THEN <<>>
    ELSE Deduplicate(get_stock_data(s, fetches[s][i].start, fetches[s][i].end, run))
             \o FetchedRows(s, i + 1)

\* The table after the symbols were processed one after another in the order
\* given, from the table the run started with.
RECURSIVE Sequentially(_, _)
Sequentially(order, n) ==
    IF n = 0 THEN snapshot.table
    ELSE Upsert(Sequentially(order, n - 1), FetchedRows(order[n], 1))

Orders ==
    {o \in [1..Len(symbols) -> SymbolSet] : \A i, j \in 1..Len(symbols) : o[i] = o[j] => i = j}

Completed == RunEnded /\ result = "returned" /\ mergeExc = NoExc

\* C23: the content of the price table after a completed sync is the same for
\* every num_threads and every interleaving of the workers: it is the result
\* of processing the symbols sequentially, in any order.
C23_SymbolsCommute ==
    Completed => \A o \in Orders : table = Sequentially(o, Len(symbols))

\* Two threads, a backfill that rewrites the rows an earlier run stored for AAA
\* and CCC.
C23_Witness ==
    /\ Completed
    /\ num_threads = 2
    /\ run = 2
    /\ lookback_days = BackfillLookback
    /\ snapshot.table # {}
    /\ table # snapshot.table
    /\ \E r \in table : r.symbol = "AAA" /\ r.extracted_at = 2
    /\ \E r \in table : r.symbol = "CCC" /\ r.extracted_at = 2

\* C24: for every integer num_threads the CLI accepts, zero and negative
\* values included, parallel_execute eventually returns or raises, provided
\* every invocation of the per-symbol function terminates.
C24_PoolTerminates == (pe = "running") ~> (pe \in {"returned", "raised"})

PartlyWritten == pc = "later" /\ statements # <<>> /\ dout # <<>>
CommittedRows == SeqRows(ConcatPages(statements))
LatestBefore == CurrentEndDate(LatestDates(snapshot.table), "AAA")
LatestAfter == CurrentEndDate(LatestDates(table), "AAA")

\* C25 (as stated): when the batched insert of a symbol fails after some
\* batches were committed, the committed rows are the earliest of the fetched
\* ones, the new latest stored date precedes every unwritten row, and a later
\* incremental sync requests a window covering every unwritten row.
C25_NoGapAfterPartialWrite ==
    PartlyWritten =>
        /\ \A c \in CommittedRows : \A i \in 1..Len(dout) : c.date < dout[i].date
        /\ \A i \in 1..Len(dout) :
              /\ LatestAfter < dout[i].date
              /\ ~plan.skip
              /\ plan.start <= dout[i].date /\ dout[i].date <= plan.end

\* C25 (amended): the committed rows are the earliest of the fetched ones, and
\* for every unwritten row dated after the symbol's latest stored date of
\* before the run, the new latest stored date precedes it and a later
\* incremental sync requests a window that covers it.
C25_NoGapAfterLatest ==
    PartlyWritten =>
        /\ \A c \in CommittedRows : \A i \in 1..Len(dout) : c.date < dout[i].date
        /\ \A i \in 1..Len(dout) :
              dout[i].date > LatestBefore =>
                  /\ LatestAfter < dout[i].date
                  /\ ~plan.skip
                  /\ plan.start <= dout[i].date /\ dout[i].date <= plan.end

\* An incremental sync of two new days in batches of one, the second statement
\* failing: the later sync asks for the day that was not written.
C25_Witness ==
    /\ PartlyWritten
    /\ lookback_days = 0
    /\ LatestBefore = 1
    /\ Len(din) = 2
    /\ Len(dout) = 1
    /\ LatestAfter = 2
    /\ plan.start = 3 /\ plan.end >= 3

\* C26: no stored price row is dated later than the current target_end
\* (today at UTC+8 minus freshness_days), so every symbol's latest date is at
\* most target_end, and every fetch an incremental sync issues has
\* start <= end.
C26_NothingBeyondTargetEnd ==
    /\ \A r \in table : r.date <= today - FreshnessDays
    /\ \A s \in DOMAIN latest_dates : latest_dates[s] <= today - FreshnessDays
    /\ lookback_days = 0 =>
          \A s \in SymbolSet : \A i \in 1..Len(fetches[s]) :
              fetches[s][i].start <= fetches[s][i].end

\* The same statement for the three variants that have the skip branch.
C26_WithSkipBranch == backend # "spark" => C26_NothingBeyondTargetEnd

\* C27: when the price sync of a stage-then-merge sink (BigQuery, Delta Lake)
\* ends, by returning or by raising for any reason, nothing the run staged
\* (uploaded objects, temporary CSV files) is left behind.
C27_NoStagingLeftBehind ==
    RunEnded /\ backend \in {"bigquery", "deltalake"} => StagingClean

FetchedKeys == UNION {SeqKeys(FetchedRows(s, 1)) : s \in SymbolSet}

\* C28: a price sync or backfill deletes no price row that was stored when
\* the run began, and leaves such a row as it was when its (symbol, date) is
\* not among the rows the run fetched; so no symbol's latest stored date is
\* lower than at the beginning of the run, whether the run fails or not.
C28_StoredRowsKept ==
    /\ \A r \in snapshot.table :
          /\ \E x \in table : Key(x) = Key(r)
          /\ Key(r) \notin FetchedKeys => r \in table
    /\ \A s \in DOMAIN LatestDates(snapshot.table) :
          /\ s \in DOMAIN LatestDates(table)
          /\ LatestDates(snapshot.table)[s] <= LatestDates(table)[s]

\* A run that added rows to a table holding rows outside what it fetched.
C28_Witness ==
    /\ RunEnded
    /\ \E r \in snapshot.table : Key(r) \notin FetchedKeys /\ r \in table
    /\ \E r \in table : Key(r) \notin {Key(x) : x \in snapshot.table}

\* The closes of the raw rows the source holds for a symbol and a date.
RawCloses(s, d) ==
    {ChartData(s)[i].close : i \in {j \in 1..Len(ChartData(s)) : ChartData(s)[j].date = d}}

\* C29: end to end, a row stored by a run carries the maximum close among the
\* raw rows the source returned for its symbol and date.
C29_StoredRowIsMaxClose ==
    \A r \in table :
        run >= 1 /\ r.extracted_at = run => r.close = SetMax(RawCloses(r.symbol, r.date))

\* C30: initdb only initializes the schema: on every destination (postgres,
\* bigquery, deltalake) the company rows and the price rows the sink held
\* before are all in place after it.
C30_InitDbKeepsRows ==
    pc = "done" => company0 \subseteq company /\ snapshot.table \subseteq table

====
